---- MODULE Spec2Model ----
(***************************************************************************)
(* A model of tonic's client dispatcher, src/tonic/src/client/grpc.rs:     *)
(* the Grpc<T> handle with its GrpcConfig, the builder setters, ready(),   *)
(* the four call shapes (unary, client_streaming, server_streaming,        *)
(* streaming), create_response and GrpcConfig::prepare_request.            *)
(*                                                                         *)
(* The transport (GrpcService), the outbound EncodeBody and the inbound    *)
(* Streaming decoder are collaborators whose code is not in grpc.rs; the   *)
(* transport is a nondeterministic environment and the two adapters are    *)
(* modelled from their description in the design document.                 *)
(***************************************************************************)
EXTENDS Naturals, Sequences, FiniteSets

VARIABLES
    config,      \* GrpcConfig of the handle (grpc.rs:39-49)
    other,       \* GrpcConfig of a clone of the handle, once one was made
    earlier,     \* an earlier exchange of the handle is still open
    tstate,      \* what the transport's readiness poll reports at present
    polls,       \* polls made by the ready() in progress
    readyResult, \* what the last ready() returned
    pc,          \* position of the caller's task in the call it follows
    shape,       \* the public method that was invoked
    issued,      \* self.config as the call read it when it was issued
    request,     \* what the caller passed it: one message, or a sequence
    msgs,        \* the outbound sequence handed to the streaming primitive
    path,        \* the call path
    req,         \* the wire request handed to the transport's call operation
    calls,       \* invocations of the transport's call operation in this call
    body,        \* the EncodeBody wrapped around the outbound sequence
    pulled,      \* messages EncodeBody has pulled from the outbound sequence
    sent,        \* frames the transport received from the request body
    bodyErr,     \* the error item the request body yielded, if any
    resp,        \* the response head the transport returned
    decoder,     \* whether codec.decoder() has been called
    stream,      \* the inbound sequence built by create_response
    reads,       \* events read from the inbound body
    ended,       \* the body event at which the inbound sequence ended
    parts,       \* header metadata captured from the response
    got,         \* messages the inbound sequence yielded and its consumer kept
    term,        \* terminal statuses produced by the streaming primitive
    result       \* what the public method returned

vars == <<config, other, earlier, tstate, polls, readyResult, pc, shape,
          issued, request, msgs, path, req, calls, body, pulled, sent,
          bodyErr, resp, decoder, stream, reads, ended, parts, got, term,
          result>>

readyVars == <<tstate, polls, readyResult>>

callVars == <<shape, issued, request, msgs, path, req, calls, body, pulled,
              sent, bodyErr, resp, decoder, stream, reads, ended, parts, got,
              term, result>>

----------------------------------------------------------------------------
(* Bounds of the model *)

\* longest outbound sequence
MaxMsgs == 2
\* largest encoded size of a message, outbound or inbound
MaxSize == 2
\* most data frames in one response body
MaxFrames == 2
\* most pending polls of one ready()
MaxPolls == 2

\* Option<T>: None is the empty sequence, Some(x) the sequence of x alone
None == <<>>
Some(x) == <<x>>

----------------------------------------------------------------------------
(* http::Uri, PathAndQuery.  A string is a sequence of tokens; "/" and "?"  *)
(* are tokens of their own, so that concatenation of strings is \o.         *)

\* Uri::default() is "/" (grpc.rs:54)
DefaultUri == [scheme |-> "", authority |-> "", data |-> <<"/">>]

\* an authority-form Uri such as "h:80": an authority, no scheme, no path
AuthorityForm == [scheme |-> "", authority |-> "h:80", data |-> <<>>]

Origins ==
    { DefaultUri,
      [scheme |-> "http", authority |-> "h", data |-> <<>>],
      [scheme |-> "http", authority |-> "h", data |-> <<"/">>],
      [scheme |-> "http", authority |-> "h", data |-> <<"/", "api">>],
      [scheme |-> "http", authority |-> "h", data |-> <<"/", "api", "/">>],
      [scheme |-> "http", authority |-> "h", data |-> <<"/", "?", "q">>],
      [scheme |-> "http", authority |-> "h", data |-> <<"/", "api", "?", "q">>],
      AuthorityForm }

CallPaths == { <<"/", "svc", "/", "Method">>, <<"/", "svc", "/", "Other">> }
MainPaths == { <<"/", "svc", "/", "Method">> }

\* index of the first "?" of a string, 0 when it has none
QueryAt(s) ==
    IF \E i \in 1..Len(s) : s[i] = "?"
    THEN CHOOSE i \in 1..Len(s) : s[i] = "?" /\ \A j \in 1..(i - 1) : s[j] # "?"
    ELSE 0

\* PathAndQuery::as_str: the whole string, "/" when it is empty
PnqAsStr(data) == IF data = <<>> THEN <<"/">> ELSE data

\* PathAndQuery::path: the part before the query, "/" when it is empty
PnqPath(data) ==
    LET p == IF QueryAt(data) = 0 THEN data ELSE SubSeq(data, 1, QueryAt(data) - 1)
    IN  IF p = <<>> THEN <<"/">> ELSE p

\* Uri::into_parts: path_and_query is Some when the Uri has a path or a scheme
IntoPartsPnq(uri) ==
    IF uri.data # <<>> \/ uri.scheme # "" THEN Some(uri.data) ELSE None

----------------------------------------------------------------------------
(* GrpcConfig *)

Encodings == {"gzip", "zstd"}
\* the order in which an accept-encoding header lists the encodings
EncodingOrder == <<"gzip", "zstd">>
Limits == 1..(MaxSize - 1)

\* Grpc::with_origin (grpc.rs:61-72)
with_origin(origin) ==
    [origin |-> origin,
     send_compression_encodings |-> None,
     accept_compression_encodings |-> {},
     max_decoding_message_size |-> None,
     max_encoding_message_size |-> None]

\* Grpc::send_compressed (grpc.rs:100-103)
send_compressed(cfg, encoding) ==
    [cfg EXCEPT !.send_compression_encodings = Some(encoding)]

\* Grpc::accept_compressed (grpc.rs:131-134)
accept_compressed(cfg, encoding) ==
    [cfg EXCEPT !.accept_compression_encodings = @ \cup {encoding}]

\* Grpc::max_decoding_message_size (grpc.rs:161-164)
max_decoding_message_size(cfg, limit) ==
    [cfg EXCEPT !.max_decoding_message_size = Some(limit)]

\* Grpc::max_encoding_message_size (grpc.rs:191-194)
max_encoding_message_size(cfg, limit) ==
    [cfg EXCEPT !.max_encoding_message_size = Some(limit)]

----------------------------------------------------------------------------
(* GrpcConfig::prepare_request (grpc.rs:376-435) *)

\* the path-and-query of the request (grpc.rs:381-394)
JoinPath(origin, p) ==
    LET pnq == IntoPartsPnq(origin)
    IN  IF pnq # None /\ PnqAsStr(pnq[1]) # <<"/">>
        THEN PnqPath(pnq[1]) \o p
        ELSE p

\* EnabledCompressionEncodings::into_accept_encoding_header_value
AcceptHeader(accept) ==
    IF accept = {} THEN None
    ELSE Some(SelectSeq(EncodingOrder, LAMBDA e : e \in accept))

\* Uri::from_parts, given a path-and-query (grpc.rs:396): a scheme needs an
\* authority, and an authority with a path-and-query needs a scheme
UriFromParts(scheme, authority) ==
    IF scheme # "" THEN authority # "" ELSE authority = ""

\* the panic of an expect (grpc.rs:388, 396)
Panic(msg) == [panic |-> msg]
IsPanic(r) == "panic" \in DOMAIN r

\* a request builder that never advertises the accepted encodings
prepare_request_no_accept(cfg, p) ==
    IF ~UriFromParts(cfg.origin.scheme, cfg.origin.authority)
    THEN Panic("path_and_query only is valid Uri")
    ELSE
    [uri |-> [scheme |-> cfg.origin.scheme,
              authority |-> cfg.origin.authority,
              data |-> JoinPath(cfg.origin, p)],
     method |-> "POST",
     version |-> "HTTP/2",
     te |-> Some("trailers"),
     content_type |-> Some("application/grpc"),
     grpc_encoding |-> cfg.send_compression_encodings,
     grpc_accept_encoding |-> None]

\* the outbound request, or the panic of Uri::from_parts(..).expect(..)
\* (grpc.rs:396-434).  No origin and call path modelled here make the parse
\* of the joined path fail, so the expect of grpc.rs:388 never fires.
prepare_request(cfg, p) ==
    IF ~UriFromParts(cfg.origin.scheme, cfg.origin.authority)
    THEN Panic("path_and_query only is valid Uri")
    ELSE
    [uri |-> [scheme |-> cfg.origin.scheme,
              authority |-> cfg.origin.authority,
              data |-> JoinPath(cfg.origin, p)],
     method |-> "POST",
     version |-> "HTTP/2",
     te |-> Some("trailers"),
     content_type |-> Some("application/grpc"),
     grpc_encoding |-> cfg.send_compression_encodings,
     grpc_accept_encoding |-> AcceptHeader(cfg.accept_compression_encodings)]

----------------------------------------------------------------------------
(* Status and metadata *)

EmptyMd == [k \in {} |-> ""]

\* MetadataMap::merge: the other map's entries are added, replacing a key's value
Merge(a, b) ==
    [k \in (DOMAIN a) \cup (DOMAIN b) |-> IF k \in DOMAIN b THEN b[k] ELSE a[k]]

Status(code, msg, md) == [code |-> code, message |-> msg, metadata |-> md]

\* Status::internal("Missing response message.") (grpc.rs:255)
MissingResponse == Status("Internal", "Missing response message.", EmptyMd)

\* the size-limit error of EncodeBody
EncodeTooLarge == Status("OutOfRange", "encoded message length too large", EmptyMd)

\* the size-limit error of the decoding sequence
DecodeTooLarge == Status("OutOfRange", "decoded message length too large", EmptyMd)

\* the protocol error for an encoding the client never advertised
UnsupportedEncoding == Status("Unimplemented", "unsupported encoding", EmptyMd)

\* the protocol error for a body that ends without a terminal status
MissingTrailers == Status("Internal", "missing trailers", EmptyMd)

\* the protocol error for a compressed frame without a negotiated encoding
UnexpectedCompression == Status("Internal", "compressed frame without encoding", EmptyMd)

\* the peer's status for a code
PeerStatus(code, md) == Status(code, "from peer", md)

\* transport errors: a plain failure of the exchange, or the request body's own
\* error handed back by the transport
IoError == [kind |-> "io", status |-> None]
BodyError(status) == [kind |-> "body", status |-> Some(status)]

\* Status::from_error_generic (grpc.rs:318): a Status found in the error is
\* returned, anything else becomes a Status of code Unknown
from_error_generic(e) ==
    IF e.status # None THEN e.status[1]
    ELSE Status("Unknown", "transport error", EmptyMd)

----------------------------------------------------------------------------
(* The response head and its classification *)

RespEncodings == {None, Some("gzip"), Some("X")}
HeaderCodes == {None, Some("Ok"), Some("PermissionDenied")}
\* the header metadata of a response: the key is one the trailers carry too
HeaderMds == {[k \in {"a"} |-> "h"]}

\* response.status() (grpc.rs:342): the HTTP status of the response
StatusCodes == {"OK", "SERVICE_UNAVAILABLE"}

ResponseHeads ==
    [status_code : StatusCodes, encoding : RespEncodings, grpc_status : HeaderCodes,
     md : HeaderMds]

\* CompressionEncoding::from_encoding_header (grpc.rs:337-340)
from_encoding_header(head, accept) ==
    IF head.encoding = None THEN [ok |-> TRUE, encoding |-> None, status |-> None]
    ELSE IF head.encoding[1] \in accept
         THEN [ok |-> TRUE, encoding |-> head.encoding, status |-> None]
         ELSE [ok |-> FALSE, encoding |-> None, status |-> Some(UnsupportedEncoding)]

\* Status::from_header_map (grpc.rs:343)
from_header_map(head) ==
    IF head.grpc_status = None THEN None
    ELSE Some(PeerStatus(head.grpc_status[1], head.md))

NoStream == [kind |-> "none", status_code |-> None, encoding |-> None, max |-> None,
             state |-> "none", trailers |-> None]

\* Streaming::new_response (grpc.rs:359-365)
new_response(status_code, encoding, max) ==
    [kind |-> "live", status_code |-> Some(status_code), encoding |-> encoding,
     max |-> max, state |-> "open", trailers |-> None]

\* Streaming::new_empty (grpc.rs:367)
new_empty == [kind |-> "empty", status_code |-> None, encoding |-> None, max |-> None,
              state |-> "open", trailers |-> None]

\* create_response without the early return of a non-OK header status
create_response_no_early_return(cfg, head) ==
    LET enc == from_encoding_header(head, cfg.accept_compression_encodings)
        expect_additional_trailers == from_header_map(head) = None
    IN  IF ~enc.ok
        THEN [ok |-> FALSE, status |-> enc.status, stream |-> NoStream]
        ELSE [ok |-> TRUE, status |-> None,
              stream |-> IF expect_additional_trailers
                         THEN new_response(head.status_code, enc.encoding,
                                           cfg.max_decoding_message_size)
                         ELSE new_empty]

\* create_response that drops the result of the encoding check
create_response_no_encoding_check(cfg, head) ==
    LET trailers_only_status == from_header_map(head)
        expect_additional_trailers == trailers_only_status = None
    IN  IF trailers_only_status # None /\ trailers_only_status[1].code # "Ok"
        THEN [ok |-> FALSE, status |-> trailers_only_status, stream |-> NoStream]
        ELSE [ok |-> TRUE, status |-> None,
              stream |-> IF expect_additional_trailers
                         THEN new_response(head.status_code, head.encoding,
                                           cfg.max_decoding_message_size)
                         ELSE new_empty]

\* create_response that always expects additional trailers
create_response_always_live(cfg, head) ==
    LET enc == from_encoding_header(head, cfg.accept_compression_encodings)
    IN  IF ~enc.ok
        THEN [ok |-> FALSE, status |-> enc.status, stream |-> NoStream]
        ELSE [ok |-> TRUE, status |-> None,
              stream |-> new_response(head.status_code, enc.encoding,
                                      cfg.max_decoding_message_size)]

\* create_response that looks for the header status before the encoding
create_response_status_first(cfg, head) ==
    LET enc == from_encoding_header(head, cfg.accept_compression_encodings)
        trailers_only_status == from_header_map(head)
        expect_additional_trailers == trailers_only_status = None
    IN  IF trailers_only_status # None /\ trailers_only_status[1].code # "Ok"
        THEN [ok |-> FALSE, status |-> trailers_only_status, stream |-> NoStream]
        ELSE IF ~enc.ok
        THEN [ok |-> FALSE, status |-> enc.status, stream |-> NoStream]
        ELSE [ok |-> TRUE, status |-> None,
              stream |-> IF expect_additional_trailers
                         THEN new_response(head.status_code, enc.encoding,
                                           cfg.max_decoding_message_size)
                         ELSE new_empty]

\* Grpc::create_response (grpc.rs:327-372)
create_response(cfg, head) ==
    LET enc == from_encoding_header(head, cfg.accept_compression_encodings)
        trailers_only_status == from_header_map(head)
        expect_additional_trailers == trailers_only_status = None
    IN  IF ~enc.ok
        THEN [ok |-> FALSE, status |-> enc.status, stream |-> NoStream]
        ELSE IF trailers_only_status # None /\ trailers_only_status[1].code # "Ok"
        THEN [ok |-> FALSE, status |-> trailers_only_status, stream |-> NoStream]
        ELSE [ok |-> TRUE, status |-> None,
              stream |-> IF expect_additional_trailers
                         THEN new_response(head.status_code, enc.encoding,
                                           cfg.max_decoding_message_size)
                         ELSE new_empty]

----------------------------------------------------------------------------
(* The outbound body: EncodeBody over the outbound sequence *)

NoBody == [encoding |-> None, max |-> None]

\* EncodeBody::new without the configured size limit
EncodeBody_new_unlimited(cfg) ==
    [encoding |-> cfg.send_compression_encodings, max |-> None]

\* EncodeBody::new as streaming calls it (grpc.rs:299-310)
EncodeBody_new(cfg) ==
    [encoding |-> cfg.send_compression_encodings,
     max |-> cfg.max_encoding_message_size]

\* one pull of the request body by the transport: the next message of the
\* outbound sequence is encoded; over the limit it becomes an error item
encode(b, m) ==
    IF b.max # None /\ m > b.max[1]
    THEN [ok |-> FALSE, frame |-> None, status |-> Some(EncodeTooLarge)]
    ELSE [ok |-> TRUE,
          frame |-> Some([len |-> m, compressed |-> b.encoding # None]),
          status |-> None]

----------------------------------------------------------------------------
(* The inbound body and the decoding sequence (Streaming) *)

TrailerMd == [k \in {"a", "b"} |-> "t"]
TrailerCodes == {"Ok", "Unavailable"}
Trailers == {None} \cup {Some([code |-> c, md |-> TrailerMd]) : c \in TrailerCodes}

DataEvents == [kind : {"data"}, len : 1..MaxSize, compressed : BOOLEAN,
               trailers : {None}]
EndEvents == [kind : {"end"}, len : {0}, compressed : {FALSE}, trailers : Trailers]
ErrorEvents == [kind : {"error"}, len : {0}, compressed : {FALSE}, trailers : {None}]
BodyEvents == DataEvents \cup EndEvents \cup ErrorEvents

\* the Status of a failure of the inbound body itself
BodyFailed == Status("Unknown", "body error", EmptyMd)

Item(kind, msg, status, trailers, read) ==
    [kind |-> kind, msg |-> msg, status |-> status, trailers |-> trailers,
     read |-> read]

\* one pull of the decoding sequence, given the next event of the body.
\* A body that ends without trailers ends the sequence when the HTTP status
\* was OK, and is the missing-trailers error otherwise.
\* The empty sequence is complete from the start and reads nothing.
poll_next(st, ev) ==
    IF st.kind = "empty" \/ st.state # "open"
    THEN Item("end", None, None, None, FALSE)
    ELSE IF ev.kind = "data"
    THEN IF ev.compressed /\ st.encoding = None
         THEN Item("err", None, Some(UnexpectedCompression), None, TRUE)
         ELSE IF st.max # None /\ ev.len > st.max[1]
         THEN Item("err", None, Some(DecodeTooLarge), None, TRUE)
         ELSE Item("msg", Some(ev.len), None, None, TRUE)
    ELSE IF ev.kind = "error"
    THEN Item("err", None, Some(BodyFailed), None, TRUE)
    ELSE IF ev.trailers = None
    THEN IF st.status_code = Some("OK")
         THEN Item("end", None, None, None, TRUE)
         ELSE Item("err", None, Some(MissingTrailers), None, TRUE)
    ELSE IF ev.trailers[1].code # "Ok"
    THEN Item("err", None,
              Some(PeerStatus(ev.trailers[1].code, ev.trailers[1].md)), None, TRUE)
    ELSE Item("end", None, None, Some(ev.trailers[1].md), TRUE)

\* the terminal status an item stands for: the error, or OK at the end
OkStatus == Status("Ok", "", EmptyMd)
TerminalOf(item) == IF item.kind = "err" THEN item.status[1] ELSE OkStatus

----------------------------------------------------------------------------
(* Results of the public methods *)

NoResult == [ok |-> FALSE, status |-> None, metadata |-> EmptyMd,
             message |-> None, streamed |-> FALSE, returned |-> FALSE]

Err(status) == [ok |-> FALSE, status |-> Some(status), metadata |-> EmptyMd,
                message |-> None, streamed |-> FALSE, returned |-> TRUE]

\* Response<M2>: metadata and the one message (grpc.rs:261)
OkMessage(md, m) == [ok |-> TRUE, status |-> None, metadata |-> md,
                     message |-> Some(m), streamed |-> FALSE, returned |-> TRUE]

\* Response<Streaming<M2>>: metadata and the inbound sequence (grpc.rs:371)
OkStream(md) == [ok |-> TRUE, status |-> None, metadata |-> md,
                 message |-> None, streamed |-> TRUE, returned |-> TRUE]

----------------------------------------------------------------------------
(* Inputs *)

Messages == 1..MaxSize
OutSeqs == UNION {[1..n -> Messages] : n \in 0..MaxMsgs}

\* the outbound sequences of at most one message
ShortSeqs == {s \in OutSeqs : Len(s) <= 1}

\* errors of the transport's readiness poll (T::Error)
TransportErrors == {"closed", "refused"}
Pending == [kind |-> "pending", err |-> None]
Ready == [kind |-> "ready", err |-> None]
Failed(e) == [kind |-> "error", err |-> Some(e)]

\* the caller's argument: Request<M1> or Request<S>
NoRequest == [message |-> None, sequence |-> <<>>]
OneMessage(m) == [message |-> Some(m), sequence |-> <<>>]
Sequence(s) == [message |-> None, sequence |-> s]

NoReady == [returned |-> FALSE, ok |-> FALSE, err |-> None]

\* Grpc::new (grpc.rs:53-55)
new == with_origin(DefaultUri)

InitWith(configs) ==
    /\ other = None
    /\ earlier = FALSE
    /\ config \in configs
    /\ tstate = Pending
    /\ polls = 0
    /\ readyResult = NoReady
    /\ pc = "idle"
    /\ shape = "none"
    /\ issued = None
    /\ request = NoRequest
    /\ msgs = <<>>
    /\ path = <<>>
    /\ req = None
    /\ calls = 0
    /\ body = NoBody
    /\ pulled = 0
    /\ sent = <<>>
    /\ bodyErr = None
    /\ resp = None
    /\ decoder = FALSE
    /\ stream = NoStream
    /\ reads = 0
    /\ ended = None
    /\ parts = EmptyMd
    /\ got = <<>>
    /\ term = <<>>
    /\ result = NoResult

\* a handle made by Grpc::new
Init == InitWith({new})

\* the handle made by new, and one made by with_origin from an origin that
\* from_parts refuses (grpc.rs:53-72)
MainOrigins == {DefaultUri, AuthorityForm}
InitMain == InitWith({with_origin(o) : o \in MainOrigins})

\* Grpc::new(t).send_compressed(zstd).accept_compressed(zstd)
ZstdHandle == accept_compressed(send_compressed(new, "zstd"), "zstd")
InitClone == InitWith({ZstdHandle})

\* what the setters are given where the transport responds: one encoding,
\* and the largest ceiling that a message exceeds
MainEncodings == {"gzip"}
MainLimits == {MaxSize - 1}

\* a handle made by Grpc::with_origin, for every origin
InitOrigin == InitWith({with_origin(o) : o \in Origins})

----------------------------------------------------------------------------
(* The builder setters (grpc.rs:100-194) *)

\* where the handle is not borrowed by one of its methods: before a call,
\* and once streaming has returned the inbound sequence to the caller
Free == {"idle", "drain"}

\* the state of the call variables when no call is followed
ClearCall ==
    /\ shape' = "none"
    /\ issued' = None
    /\ request' = NoRequest
    /\ msgs' = <<>>
    /\ path' = <<>>
    /\ req' = None
    /\ calls' = 0
    /\ body' = NoBody
    /\ pulled' = 0
    /\ sent' = <<>>
    /\ bodyErr' = None
    /\ resp' = None
    /\ decoder' = FALSE
    /\ stream' = NoStream
    /\ reads' = 0
    /\ ended' = None
    /\ parts' = EmptyMd
    /\ got' = <<>>
    /\ term' = <<>>
    /\ result' = NoResult

\* a method that borrows the handle while the caller holds an open sequence:
\* the exchange of that sequence stays open and is followed no further
Displace == earlier' = (earlier \/ pc = "drain")

SendCompressedOf(encodings) ==
    /\ pc \in Free
    /\ \E e \in encodings : config' = send_compressed(config, e)
    /\ UNCHANGED <<other, earlier, pc, readyVars, callVars>>

SendCompressed == SendCompressedOf(Encodings)

AcceptCompressedOf(encodings) ==
    /\ pc \in Free
    /\ \E e \in encodings : config' = accept_compressed(config, e)
    /\ UNCHANGED <<other, earlier, pc, readyVars, callVars>>

AcceptCompressed == AcceptCompressedOf(Encodings)

MaxDecodingMessageSizeOf(limits) ==
    /\ pc \in Free
    /\ \E l \in limits : config' = max_decoding_message_size(config, l)
    /\ UNCHANGED <<other, earlier, pc, readyVars, callVars>>

MaxDecodingMessageSize == MaxDecodingMessageSizeOf(Limits)

MaxEncodingMessageSizeOf(limits) ==
    /\ pc \in Free
    /\ \E l \in limits : config' = max_encoding_message_size(config, l)
    /\ UNCHANGED <<other, earlier, pc, readyVars, callVars>>

MaxEncodingMessageSize == MaxEncodingMessageSizeOf(Limits)

----------------------------------------------------------------------------
(* Clone (grpc.rs:437-450) and the builder setters applied to the clone *)

\* a clone that starts without the decoding limit
clone_no_limit(cfg) ==
    [origin |-> cfg.origin,
     send_compression_encodings |-> cfg.send_compression_encodings,
     accept_compression_encodings |-> cfg.accept_compression_encodings,
     max_encoding_message_size |-> cfg.max_encoding_message_size,
     max_decoding_message_size |-> None]

\* the GrpcConfig of self.clone() (grpc.rs:441-447)
clone(cfg) ==
    [origin |-> cfg.origin,
     send_compression_encodings |-> cfg.send_compression_encodings,
     accept_compression_encodings |-> cfg.accept_compression_encodings,
     max_encoding_message_size |-> cfg.max_encoding_message_size,
     max_decoding_message_size |-> cfg.max_decoding_message_size]

\* the handle is cloned while no call borrows it
Clone ==
    /\ pc \in Free
    /\ other' = Some(clone(config))
    /\ UNCHANGED <<config, earlier, pc, readyVars, callVars>>

\* what one builder setter makes of a configuration (grpc.rs:100-194)
SettersOf(cfg, encodings, limits) ==
    {send_compressed(cfg, e) : e \in encodings}
        \cup {accept_compressed(cfg, e) : e \in encodings}
        \cup {max_decoding_message_size(cfg, l) : l \in limits}
        \cup {max_encoding_message_size(cfg, l) : l \in limits}

\* a builder setter is applied to the clone, whatever the handle is doing
SetOnCloneOf(encodings, limits) ==
    /\ other # None
    /\ \E c \in SettersOf(other[1], encodings, limits) : other' = Some(c)
    /\ UNCHANGED <<config, earlier, pc, readyVars, callVars>>

----------------------------------------------------------------------------
(* ready (grpc.rs:201-206) and the transport's readiness *)

\* the transport becomes ready, or fails, while nothing is in flight
TransportReadiness ==
    /\ pc \in {"idle", "ready"}
    /\ tstate = Pending
    /\ tstate' \in {Ready} \cup {Failed(e) : e \in TransportErrors}
    /\ UNCHANGED <<config, other, earlier, pc, polls, readyResult, callVars>>

ReadyStart ==
    /\ pc \in Free
    /\ pc' = "ready"
    /\ polls' = 0
    /\ readyResult' = NoReady
    /\ Displace
    /\ ClearCall
    /\ UNCHANGED <<config, other, tstate>>

\* a ready that turns the transport's error into a Status code
ready_poll_as_status(t) ==
    IF t.kind = "pending" THEN NoReady
    ELSE IF t.kind = "ready" THEN [returned |-> TRUE, ok |-> TRUE, err |-> None]
    ELSE [returned |-> TRUE, ok |-> FALSE, err |-> Some("Unknown")]

\* what poll_fn returns for one poll of inner.poll_ready (grpc.rs:205)
ready_poll(t) ==
    IF t.kind = "pending" THEN NoReady
    ELSE IF t.kind = "ready" THEN [returned |-> TRUE, ok |-> TRUE, err |-> None]
    ELSE [returned |-> TRUE, ok |-> FALSE, err |-> t.err]

ReadyPoll ==
    /\ pc = "ready"
    /\ LET r == ready_poll(tstate)
       IN  IF r.returned
           THEN /\ readyResult' = r
                /\ pc' = "idle"
                /\ polls' = polls
           ELSE /\ polls < MaxPolls
                /\ polls' = polls + 1
                /\ UNCHANGED <<readyResult, pc>>
    /\ UNCHANGED <<config, other, earlier, tstate, callVars>>

----------------------------------------------------------------------------
(* The four call shapes (grpc.rs:209-323) *)

\* tokio_stream::once(m): the one-element sequence (grpc.rs:223, 279)
once(m) == <<m>>

\* a unary that sends its message twice
unary_request_twice(r) == once(r.message[1]) \o once(r.message[1])

\* unary wraps its message and delegates to client_streaming (grpc.rs:223-224)
unary_request(r) == once(r.message[1])
unary_delegate == "client_streaming"

\* server_streaming wraps its message and delegates to streaming (grpc.rs:279-280)
server_streaming_request(r) == once(r.message[1])
server_streaming_delegate == "streaming"

\* the method whose code consumes what the streaming primitive returns
Adapter(sh) ==
    CASE sh = "unary" -> unary_delegate
      [] sh = "server_streaming" -> server_streaming_delegate
      [] OTHER -> sh

\* streaming up to its await of inner.call (grpc.rs:299-317): the outbound
\* sequence is wrapped, the wire request built, the call operation invoked.
\* When prepare_request panics the call operation is not reached and the
\* caller's task unwinds.  The handle is borrowed from where it is free: a
\* sequence the caller still holds is followed no further.
StartStreaming(sh, r, s, p) ==
    /\ pc \in Free
    /\ Displace
    /\ shape' = sh
    /\ issued' = Some(config)
    /\ request' = r
    /\ msgs' = s
    /\ path' = p
    /\ body' = EncodeBody_new(config)
    /\ LET built == prepare_request(config, p)
       IN  IF IsPanic(built)
           THEN pc' = "panicked" /\ req' = None /\ calls' = 0
           ELSE pc' = "call" /\ req' = Some(built) /\ calls' = 1
    /\ pulled' = 0
    /\ sent' = <<>>
    /\ bodyErr' = None
    /\ resp' = None
    /\ decoder' = FALSE
    /\ stream' = NoStream
    /\ reads' = 0
    /\ ended' = None
    /\ parts' = EmptyMd
    /\ got' = <<>>
    /\ term' = <<>>
    /\ result' = NoResult
    /\ tstate' = Pending
    /\ polls' = 0
    /\ readyResult' = NoReady
    /\ UNCHANGED <<config, other>>

Unary(paths) ==
    \E m \in Messages, p \in paths :
        StartStreaming("unary", OneMessage(m), unary_request(OneMessage(m)), p)

ClientStreamingOf(seqs, paths) ==
    \E s \in seqs, p \in paths :
        StartStreaming("client_streaming", Sequence(s), s, p)

ClientStreaming(paths) == ClientStreamingOf(OutSeqs, paths)

ServerStreaming(paths) ==
    \E m \in Messages, p \in paths :
        StartStreaming("server_streaming", OneMessage(m),
                       server_streaming_request(OneMessage(m)), p)

StreamingOf(seqs, paths) ==
    \E s \in seqs, p \in paths : StartStreaming("streaming", Sequence(s), s, p)

Streaming(paths) == StreamingOf(OutSeqs, paths)

\* where a call waits: for inner.call (grpc.rs:314-317), for the first item
\* (grpc.rs:248-249), for the trailers (grpc.rs:257), or, in the caller's
\* hands, for the next item of the returned sequence
SuspensionPoints == {"call", "pull", "trailers", "drain"}

\* the call is in flight: the transport may still pull the request body
InFlight == pc \in SuspensionPoints

\* the transport pulls the next item of the request body
TransportPull ==
    /\ InFlight
    /\ bodyErr = None
    /\ pulled < Len(msgs)
    /\ LET e == encode(body, msgs[pulled + 1])
       IN  /\ pulled' = pulled + 1
           /\ IF e.ok
              THEN sent' = Append(sent, e.frame[1]) /\ bodyErr' = bodyErr
              ELSE bodyErr' = e.status /\ sent' = sent
    /\ UNCHANGED <<config, other, earlier, readyVars, pc, shape, issued,
                   request, msgs, path, req, calls, body, resp, decoder,
                   stream, reads, ended, parts, got, term, result>>

\* streaming that swallows the failure of inner.call
streaming_failed_swallowed(e) == OkStream(EmptyMd)

\* inner.call fails (grpc.rs:314-318): the failure is mapped and returned
streaming_failed(e) == Err(from_error_generic(e))

TransportFail ==
    /\ pc = "call"
    /\ \E e \in (IF bodyErr = None THEN {IoError} ELSE {BodyError(bodyErr[1])}) :
          /\ result' = streaming_failed(e)
          /\ term' = Append(term, from_error_generic(e))
    /\ pc' = "done"
    /\ UNCHANGED <<config, other, earlier, readyVars, shape, issued, request,
                   msgs, path, req, calls, body, pulled, sent, bodyErr, resp,
                   decoder, stream, reads, ended, parts, got>>

\* inner.call returns a response (grpc.rs:314-322): the decoder is made and
\* the response classified; the stream goes to the caller or to client_streaming
TransportRespond ==
    /\ pc = "call"
    /\ bodyErr = None
    /\ \E head \in ResponseHeads :
          LET r == create_response(config, head)
          IN  /\ resp' = Some(head)
              /\ decoder' = TRUE
              /\ stream' = r.stream
              /\ IF ~r.ok
                 THEN /\ result' = Err(r.status[1])
                      /\ term' = Append(term, r.status[1])
                      /\ parts' = parts
                      /\ pc' = "done"
                 ELSE /\ parts' = head.md
                      /\ term' = term
                      /\ IF Adapter(shape) = "client_streaming"
                         THEN result' = result /\ pc' = "pull"
                         ELSE result' = OkStream(head.md) /\ pc' = "drain"
    /\ UNCHANGED <<config, other, earlier, readyVars, shape, issued, request,
                   msgs, path, req, calls, body, pulled, sent, bodyErr, reads,
                   ended, got>>

\* the events the inbound body can deliver next; an exchange whose request
\* body failed is aborted, and its inbound body fails too
NextEvents ==
    IF bodyErr # None THEN ErrorEvents
    ELSE IF reads < MaxFrames THEN BodyEvents
    ELSE EndEvents \cup ErrorEvents

\* the state of the decoding sequence after it yielded an item
After(st, item) ==
    IF item.kind = "msg" THEN st
    ELSE [st EXCEPT !.state = "done", !.trailers = item.trailers]

Count(item) == IF item.read THEN 1 ELSE 0

\* the body event at which the sequence ended, once it read one that ends it
Ended(was, item, ev) ==
    IF item.read /\ item.kind # "msg"
    THEN Some([kind |-> ev.kind, trailers |-> ev.trailers])
    ELSE was

\* the caller of streaming or server_streaming pulls the returned sequence
Drain ==
    /\ pc = "drain"
    /\ \E ev \in NextEvents :
          LET item == poll_next(stream, ev)
          IN  /\ stream' = After(stream, item)
              /\ reads' = reads + Count(item)
              /\ ended' = Ended(ended, item, ev)
              /\ IF item.kind = "msg"
                 THEN /\ got' = Append(got, item.msg[1])
                      /\ UNCHANGED <<term, pc>>
                 ELSE /\ term' = Append(term, TerminalOf(item))
                      /\ pc' = "done"
                      /\ got' = got
    /\ UNCHANGED <<config, other, earlier, readyVars, shape, issued, request,
                   msgs, path, req, calls, body, pulled, sent, bodyErr, resp,
                   decoder, parts, result>>

\* client_streaming that answers an exhausted sequence with a default message
client_streaming_first_lenient(item, md) ==
    IF item.kind = "err"
    THEN Err([item.status[1] EXCEPT !.metadata = Merge(@, md)])
    ELSE IF item.kind = "end"
    THEN OkMessage(md, 0)
    ELSE NoResult

\* client_streaming that propagates the failure of the first pull as it is
client_streaming_first_unmerged(item, md) ==
    IF item.kind = "err"
    THEN Err(item.status[1])
    ELSE IF item.kind = "end"
    THEN Err(MissingResponse)
    ELSE NoResult

\* client_streaming after body.try_next() (grpc.rs:248-255)
client_streaming_first(item, md) ==
    IF item.kind = "err"
    THEN Err([item.status[1] EXCEPT !.metadata = Merge(@, md)])
    ELSE IF item.kind = "end"
    THEN Err(MissingResponse)
    ELSE NoResult

ClientStreamingPull ==
    /\ pc = "pull"
    /\ \E ev \in NextEvents :
          LET item == poll_next(stream, ev)
              r == client_streaming_first(item, parts)
          IN  /\ stream' = After(stream, item)
              /\ reads' = reads + Count(item)
              /\ ended' = Ended(ended, item, ev)
              /\ result' = r
              /\ IF item.kind = "msg"
                 THEN /\ got' = Append(got, item.msg[1])
                      /\ pc' = "trailers"
                      /\ term' = term
                 ELSE /\ term' = Append(term, TerminalOf(item))
                      /\ pc' = "done"
                      /\ got' = got
    /\ UNCHANGED <<config, other, earlier, readyVars, shape, issued, request,
                   msgs, path, req, calls, body, pulled, sent, bodyErr, resp,
                   decoder, parts>>

\* client_streaming that returns the header metadata without the trailers
client_streaming_last_unmerged(item, md, m) ==
    IF item.kind = "err"
    THEN Err(item.status[1])
    ELSE OkMessage(md, m)

\* client_streaming after body.trailers() (grpc.rs:257-261)
client_streaming_last(item, md, m) ==
    IF item.kind = "err"
    THEN Err(item.status[1])
    ELSE OkMessage(IF item.trailers # None THEN Merge(md, item.trailers[1]) ELSE md, m)

\* body.trailers() pulls the sequence to its end, dropping further messages
ClientStreamingTrailers ==
    /\ pc = "trailers"
    /\ \E ev \in NextEvents :
          LET item == poll_next(stream, ev)
          IN  /\ stream' = After(stream, item)
              /\ reads' = reads + Count(item)
              /\ ended' = Ended(ended, item, ev)
              /\ IF item.kind = "msg"
                 THEN UNCHANGED <<term, pc, result>>
                 ELSE /\ term' = Append(term, TerminalOf(item))
                      /\ result' = client_streaming_last(item, parts, got[1])
                      /\ pc' = "done"
    /\ UNCHANGED <<config, other, earlier, readyVars, shape, issued, request,
                   msgs, path, req, calls, body, pulled, sent, bodyErr, resp,
                   decoder, parts, got>>

\* the caller is done with the call's result; the handle is used again
Reset ==
    /\ pc = "done"
    /\ pc' = "idle"
    /\ ClearCall
    /\ UNCHANGED <<config, other, earlier, readyVars>>

\* an exchange that is followed no further ends, or the caller drops its
\* sequence
EarlierEnds ==
    /\ earlier
    /\ earlier' = FALSE
    /\ UNCHANGED <<config, other, pc, readyVars, callVars>>

Next ==
    \/ SendCompressedOf(MainEncodings)
    \/ AcceptCompressedOf(MainEncodings)
    \/ MaxDecodingMessageSizeOf(MainLimits)
    \/ MaxEncodingMessageSizeOf(MainLimits)
    \/ TransportReadiness
    \/ ReadyStart
    \/ ReadyPoll
    \/ Unary(MainPaths)
    \/ ClientStreaming(MainPaths)
    \/ ServerStreaming(MainPaths)
    \/ StreamingOf(ShortSeqs, MainPaths)
    \/ TransportPull
    \/ TransportFail
    \/ TransportRespond
    \/ Drain
    \/ ClientStreamingPull
    \/ ClientStreamingTrailers
    \/ Reset
    \/ EarlierEnds

\* the setters, ready() and the four call shapes against a transport that
\* may respond; a setter runs and a call starts wherever the handle is free,
\* the moment a returned sequence is still held included
Spec == InitMain /\ [][Next]_vars

\* request building for every origin and call path, against a transport that
\* takes the request and fails the exchange
NextOrigin ==
    \/ SendCompressed
    \/ AcceptCompressed
    \/ MaxDecodingMessageSize
    \/ MaxEncodingMessageSize
    \/ Unary(CallPaths)
    \/ ClientStreaming(CallPaths)
    \/ ServerStreaming(CallPaths)
    \/ Streaming(CallPaths)
    \/ TransportPull
    \/ TransportFail
    \/ Reset

SpecOrigin == InitOrigin /\ [][NextOrigin]_vars

\* the handle before any call: the setters and ready().  The task awaiting
\* ready() is polled again whenever the transport wakes it, so a poll that
\* can be made is made.
NextReady ==
    \/ SendCompressed
    \/ AcceptCompressed
    \/ MaxDecodingMessageSize
    \/ MaxEncodingMessageSize
    \/ TransportReadiness
    \/ ReadyStart
    \/ ReadyPoll

SpecReady == Init /\ [][NextReady]_vars /\ WF_vars(ReadyPoll)

\* the handle and a clone of it: the setters on either, ready() and the four
\* call shapes on the handle, with short outbound sequences, against a
\* transport that may respond.  The handle was built with both encodings
\* set, so that a setter meets a field that already has a value; the clone
\* is taken, and a setter runs on either, wherever the handle is free, the
\* moment a returned sequence is still held included.
NextClone ==
    \/ SendCompressedOf(MainEncodings)
    \/ AcceptCompressedOf(MainEncodings)
    \/ MaxDecodingMessageSizeOf(MainLimits)
    \/ MaxEncodingMessageSizeOf(MainLimits)
    \/ Clone
    \/ SetOnCloneOf(MainEncodings, MainLimits)
    \/ TransportReadiness
    \/ ReadyStart
    \/ ReadyPoll
    \/ Unary(MainPaths)
    \/ ClientStreamingOf(ShortSeqs, MainPaths)
    \/ ServerStreaming(MainPaths)
    \/ StreamingOf(ShortSeqs, MainPaths)
    \/ TransportPull
    \/ TransportFail
    \/ TransportRespond
    \/ Drain
    \/ ClientStreamingPull
    \/ ClientStreamingTrailers
    \/ Reset
    \/ EarlierEnds

SpecClone == InitClone /\ [][NextClone]_vars

----------------------------------------------------------------------------
(* Properties *)

HeaderStatus == resp[1].grpc_status
\* the configuration of the call in progress: the handle's, as it was when
\* the call was issued
Issued == IF issued = None THEN config ELSE issued[1]
Accepted == Issued.accept_compression_encodings
EncodingAccepted == resp[1].encoding = None \/ resp[1].encoding[1] \in Accepted
TrailersOnlyError == HeaderStatus # None /\ HeaderStatus[1] # "Ok"
ClientShapes == {"unary", "client_streaming"}
StreamShapes == {"server_streaming", "streaming"}

\* C1 as stated: every response whose header block carries a non-OK status
\* makes the call return an error with exactly that code at once, with no
\* decoding sequence built and no body frame read.
C1_AnyEncoding ==
    (resp # None /\ TrailersOnlyError)
        => /\ pc = "done"
           /\ ~result.ok
           /\ result.status # None
           /\ result.status[1].code = HeaderStatus[1]
           /\ stream.kind = "none"
           /\ reads = 0

\* C1, amended: a response whose header block carries a non-OK status and
\* whose compression-encoding header is absent or names an accepted encoding
\* makes the call return an error with exactly that code at once, with no
\* decoding sequence built and no body frame read.
C1_TrailersOnlyError ==
    (resp # None /\ TrailersOnlyError /\ EncodingAccepted)
        => /\ pc = "done"
           /\ ~result.ok
           /\ result.status # None
           /\ result.status[1].code = HeaderStatus[1]
           /\ stream.kind = "none"
           /\ reads = 0

C1_Witness ==
    /\ resp # None
    /\ HeaderStatus = Some("PermissionDenied")
    /\ resp[1].encoding = Some("gzip")
    /\ "gzip" \in Accepted
    /\ shape = "unary"
    /\ pc = "done"
    /\ result = Err(PeerStatus("PermissionDenied", resp[1].md))

\* C2: a response whose compression-encoding header names an encoding
\* outside the accepted-inbound set fails the call at once with the
\* unsupported-encoding protocol error, before any body frame is read or
\* decoded; no response escapes the check.
C2_UnsupportedEncoding ==
    (resp # None /\ ~EncodingAccepted)
        => /\ pc = "done"
           /\ result = Err(UnsupportedEncoding)
           /\ stream.kind = "none"
           /\ reads = 0
           /\ got = <<>>

C2_Witness ==
    /\ resp # None
    /\ resp[1].encoding = Some("X")
    /\ Accepted = {}
    /\ pc = "done"
    /\ result = Err(UnsupportedEncoding)
    /\ reads = 0

\* C3: client_streaming and unary against a response whose header block
\* carries status OK (a successful call of zero items) never return a
\* response: they return the internal error "Missing response message.".
C3_MissingResponseMessage ==
    (shape \in ClientShapes /\ resp # None /\ HeaderStatus = Some("Ok")
     /\ EncodingAccepted)
        => /\ pc \in {"pull", "done"}
           /\ ~result.ok
           /\ reads = 0
           /\ (pc = "done" => result = Err(MissingResponse))

C3_Witness ==
    /\ shape = "unary"
    /\ resp # None
    /\ HeaderStatus = Some("Ok")
    /\ pc = "done"
    /\ result = Err(MissingResponse)

\* the call operation itself fails: transport failure, protocol failure or
\* a non-OK status in the header block
DirectFailure == resp = None \/ ~EncodingAccepted \/ TrailersOnlyError

\* C4: a completed call has produced exactly one terminal status: returned
\* by the call operation itself (no sequence exists then), or reached by
\* draining the returned sequence to its end; never none and never two.
C4_OneTerminalStatus ==
    /\ Len(term) <= 1
    /\ (pc \in {"call", "pull", "trailers", "drain"} => term = <<>>)
    /\ (pc = "done" =>
          /\ Len(term) = 1
          /\ IF DirectFailure
             THEN stream.kind = "none" /\ result = Err(term[1])
             ELSE stream.kind # "none" /\ stream.state = "done")

C4_Witness ==
    /\ pc = "done"
    /\ shape = "streaming"
    /\ result.ok
    /\ Len(got) = 1
    /\ term = <<PeerStatus("Unavailable", TrailerMd)>>

\* what holds of a call in every state, for C5
C5_State ==
    /\ (result.ok => resp # None)
    /\ (shape \in StreamShapes /\ result.returned /\ ~result.ok)
          => /\ reads = 0
             /\ DirectFailure
             /\ (resp # None /\ EncodingAccepted)
                   => result.status[1].code = HeaderStatus[1]
    /\ (shape \in StreamShapes /\ resp # None /\ ~DirectFailure)
          => result = OkStream(resp[1].md)

\* what holds when streaming returns a sequence, for C5
C5_Return ==
    (pc = "call" /\ pc' \in {"pull", "drain"})
        => resp' # None /\ reads' = 0 /\ term' = <<>>

\* C5: streaming returns a sequence only if the transport's call succeeded,
\* and when it returns nothing of the body or trailers has been read; what
\* the body or trailers carry surfaces only through the returned sequence,
\* and the one failure of the peer that streaming returns itself is a
\* non-OK status in the header block.
C5_LazyFailure == []C5_State /\ [][C5_Return]_vars

C5_Witness ==
    /\ pc = "done"
    /\ resp # None
    /\ shape = "server_streaming"
    /\ result = OkStream(resp[1].md)
    /\ reads > 0
    /\ term = <<PeerStatus("Unavailable", TrailerMd)>>

Limit == Issued.max_encoding_message_size
Oversized(m) == Limit # None /\ m > Limit[1]

Origin == config.origin
OriginPath == PnqPath(Origin.data)

\* C7: the request path is the origin's base path followed by the call
\* path when the origin has a non-root base path, and the call path alone
\* when the origin's path is "/" or the origin is the default one.
C7_PathJoining ==
    req # None
        => req[1].uri.data = IF OriginPath # <<"/">> THEN OriginPath \o path ELSE path

\* C8: only the scheme and the authority of the origin appear in the
\* request target; its path and query are replaced by the call path.
C8_OnlySchemeAndAuthority ==
    req # None
        => req[1].uri = [scheme |-> Origin.scheme, authority |-> Origin.authority,
                         data |-> path]

\* a step taken while ready() is awaited, for C9
C9_Step ==
    pc = "ready"
        => /\ tstate.kind = "pending" => (pc' = "ready" /\ readyResult' = NoReady)
           /\ pc' # "ready"
                 => /\ tstate.kind # "pending"
                    /\ readyResult' = [returned |-> TRUE,
                                        ok |-> tstate.kind = "ready",
                                        err |-> tstate.err]

\* a report of ready or of an error ends ready(), for C9
C9_Live ==
    (pc = "ready" /\ tstate.kind # "pending") ~> (pc = "idle" /\ readyResult.returned)

\* C9: ready() keeps polling while the transport reports pending and never
\* completes then; it completes with success exactly on a poll that reports
\* ready and with the transport's own error, unchanged, exactly on a poll
\* that reports an error; once the transport reports ready or an error,
\* ready() completes.
C9_Ready == [][C9_Step]_vars /\ C9_Live

C9_Witness ==
    /\ pc = "idle"
    /\ polls > 0
    /\ readyResult = [returned |-> TRUE, ok |-> FALSE, err |-> Some("refused")]

\* what streaming makes of the configuration and the path: the wire request,
\* or none when the request builder panics
Built_request(cfg, p) ==
    LET built == prepare_request(cfg, p)
    IN  IF IsPanic(built) THEN None ELSE Some(built)

\* C10: unary hands client_streaming the one-element sequence of its
\* message, with the same path and configuration, and every later step of
\* the call is client_streaming's, a panic of the request builder
\* included; server_streaming does the same with streaming.  unary returns
\* one decoded message or an error, never a sequence.
C10_ThinAdapters ==
    /\ shape \in {"unary", "server_streaming"}
          => /\ msgs = <<request.message[1]>>
             /\ req = Built_request(Issued, path)
             /\ (pc = "panicked") = (req = None)
             /\ \A i \in 1..Len(sent) : i = 1 /\ sent[i].len = request.message[1]
    /\ shape = "unary"
          => /\ pc \in {"panicked", "call", "pull", "trailers", "done"}
             /\ result.returned
                   => /\ ~result.streamed
                      /\ result.ok => (Len(got) = 1 /\ result.message = Some(got[1]))
    /\ shape = "server_streaming"
          => /\ pc \in {"panicked", "call", "drain", "done"}
             /\ (result.returned /\ result.ok) => result.streamed

C10_Witness ==
    /\ shape = "unary"
    /\ pc = "done"
    /\ request = OneMessage(2)
    /\ Len(sent) = 1
    /\ result.ok
    /\ result.message = Some(2)

\* C12: the call operation is invoked exactly once in every call, and only
\* with the outbound sequence wrapped and the wire request built; a failed
\* invocation is mapped into a Status and returned at once, with no second
\* invocation, no decoder created and the classifier never run.
C12_CalledOnce ==
    /\ calls = (IF pc \in {"idle", "ready"} THEN 0 ELSE 1)
    /\ calls > 0
          => /\ body = EncodeBody_new(Issued)
             /\ req = Some(prepare_request(Issued, path))
    /\ (pc = "done" /\ resp = None)
          => /\ result \in {Err(from_error_generic(IoError)),
                            Err(from_error_generic(BodyError(EncodeTooLarge)))}
             /\ term = <<result.status[1]>>
             /\ ~decoder
             /\ stream = NoStream
             /\ reads = 0

\* every entry of sub is an entry of md
Contains(md, sub) == \A k \in DOMAIN sub : k \in DOMAIN md /\ md[k] = sub[k]

\* client_streaming got the sequence from streaming and its first pull failed
FirstPullFailed ==
    /\ shape \in ClientShapes
    /\ pc = "done"
    /\ resp # None
    /\ ~DirectFailure
    /\ got = <<>>
    /\ term # <<OkStatus>>

\* C13: in client_streaming, when streaming succeeded and the pull of the
\* first response item fails, the returned Status has the code and message
\* of that failure and its metadata contains the captured header metadata.
C13_FirstPullMerged ==
    FirstPullFailed
        => /\ ~result.ok
           /\ result.status # None
           /\ result.status[1].code = term[1].code
           /\ result.status[1].message = term[1].message
           /\ Contains(result.status[1].metadata, resp[1].md)

C13_Witness ==
    /\ FirstPullFailed
    /\ shape = "client_streaming"
    /\ resp[1].md # EmptyMd
    /\ term = <<PeerStatus("Unavailable", TrailerMd)>>
    /\ result = Err(PeerStatus("Unavailable", Merge(TrailerMd, resp[1].md)))

\* client_streaming got its one message and then read the sequence to its end
MessageObtained ==
    /\ shape \in ClientShapes
    /\ pc = "done"
    /\ Len(got) = 1

\* the inbound body ended with trailers, or with none
TrailersPresent ==
    ended # None /\ ended[1].kind = "end" /\ ended[1].trailers # None
TrailersAbsent ==
    ended # None /\ ended[1].kind = "end" /\ ended[1].trailers = None

\* C14 as stated: in client_streaming, after the one message the trailing
\* metadata is read: with trailers the response that is returned carries the
\* header metadata merged with the trailers, and without trailers the call
\* still succeeds, with the message and the header metadata alone.
C14_AbsenceNeverFails ==
    MessageObtained
        => /\ (TrailersPresent /\ result.ok)
                 => result = OkMessage(Merge(resp[1].md, ended[1].trailers[1].md),
                                       got[1])
           /\ TrailersAbsent => result = OkMessage(resp[1].md, got[1])

\* C14, amended: with trailers of status OK the returned metadata is the
\* header metadata merged with the trailers; without trailers the call
\* succeeds with the message and the header metadata alone when the HTTP
\* status of the response was OK, and returns the sequence's missing-trailers
\* error, without the message, when it was not.  client_streaming returns a
\* response in no other case.
C14_TrailersMerged ==
    /\ MessageObtained
          => /\ (TrailersPresent /\ ended[1].trailers[1].code = "Ok")
                   => result = OkMessage(Merge(resp[1].md, ended[1].trailers[1].md),
                                         got[1])
             /\ (TrailersAbsent /\ resp[1].status_code = "OK")
                   => result = OkMessage(resp[1].md, got[1])
             /\ (TrailersAbsent /\ resp[1].status_code # "OK")
                   => result = Err(MissingTrailers)
    /\ (shape \in ClientShapes /\ result.ok)
          => /\ MessageObtained
             /\ \/ TrailersPresent /\ ended[1].trailers[1].code = "Ok"
                \/ TrailersAbsent /\ resp[1].status_code = "OK"

\* the message was read and the body of a response with HTTP status
\* SERVICE_UNAVAILABLE then ended without trailers
C14_Witness ==
    /\ MessageObtained
    /\ TrailersAbsent
    /\ resp[1].status_code = "SERVICE_UNAVAILABLE"
    /\ reads = 2
    /\ term = <<MissingTrailers>>
    /\ result = Err(MissingTrailers)

\* C15 as stated: when some message of the outbound sequence, at any
\* position, exceeds max_encoding_message_size, the transport receives no
\* frame of the call, not even of an earlier message.
C15_NothingSent ==
    (\E i \in 1..Len(msgs) : Oversized(msgs[i])) => sent = <<>>

\* C15, amended: the transport receives frames of the messages that precede
\* the first oversized message only, in order, and none of that message or
\* of a later one; when the first message is the oversized one the
\* transport receives no frame of the call.
C15_EarlierOnly ==
    /\ Len(sent) <= pulled
    /\ \A j \in 1..Len(sent) : sent[j].len = msgs[j] /\ ~Oversized(msgs[j])
    /\ \A i \in 1..Len(msgs) :
          Oversized(msgs[i]) => Len(sent) < i /\ pulled <= i
    /\ (msgs # <<>> /\ Oversized(msgs[1])) => sent = <<>>

C15_Witness ==
    /\ Len(msgs) = 2
    /\ Oversized(msgs[2])
    /\ pulled = 2
    /\ bodyErr = Some(EncodeTooLarge)
    /\ sent = <<[len |-> msgs[1], compressed |-> body.encoding # None]>>

\* the encodings an accept-encoding header value lists
Listed(h) == {h[i] : i \in 1..Len(h)}

OneField(c, d) ==
    \/ \E e \in Encodings : d = [c EXCEPT !.send_compression_encodings = Some(e)]
    \/ \E e \in Encodings :
          d = [c EXCEPT !.accept_compression_encodings = @ \cup {e}]
    \/ \E l \in Limits : d = [c EXCEPT !.max_decoding_message_size = Some(l)]
    \/ \E l \in Limits : d = [c EXCEPT !.max_encoding_message_size = Some(l)]

\* a step of the handle or of its clone, for C17
C17_Step ==
    /\ config' # config
          => /\ pc \in Free
             /\ UNCHANGED <<pc, readyVars, callVars>>
             /\ OneField(config, config')
             /\ other' = other
    /\ other' # other
          => /\ config' = config
             /\ other' # None
             /\ \/ other' = Some(config)
                \/ other # None /\ OneField(other[1], other'[1])

\* C17: the configuration is changed only by the builder setters: ready and
\* the four call methods leave all five fields unchanged at every step;
\* a setter changes only its own field (send_compressed replaces the
\* outbound encoding, accept_compressed only adds to the accepted set, a
\* size setter sets its ceiling); a clone starts with a configuration equal
\* to the handle's, and a setter on one of the two leaves the other alone.
C17_ConfigFrame == [][C17_Step]_vars

\* a server_streaming call whose sequence the caller drained to its OK end:
\* while the sequence was held the handle got accept_compressed(gzip) and
\* send_compressed(gzip), and the clone got max_decoding_message_size
C17_Witness ==
    /\ pc = "done"
    /\ shape = "server_streaming"
    /\ resp # None
    /\ result = OkStream(resp[1].md)
    /\ Len(got) = 1
    /\ term = <<OkStatus>>
    /\ Issued.accept_compression_encodings = {"zstd"}
    /\ Issued.send_compression_encodings = Some("zstd")
    /\ config.accept_compression_encodings = {"gzip", "zstd"}
    /\ config.send_compression_encodings = Some("gzip")
    /\ config.max_decoding_message_size = None
    /\ other # None
    /\ other[1].accept_compression_encodings = {"gzip", "zstd"}
    /\ other[1].send_compression_encodings = Some("zstd")
    /\ other[1].max_decoding_message_size = Some(MaxSize - 1)

\* the response is taken as a completed sequence of no items
EmptySequence ==
    /\ stream.kind = "empty"
    /\ stream.encoding = None
    /\ stream.max = None
    /\ stream.trailers = None
    /\ reads = 0
    /\ got = <<>>
    /\ pc # "call"
    /\ shape \in StreamShapes
          => /\ result = OkStream(resp[1].md)
             /\ pc = "done" => term = <<OkStatus>>

\* C18 as stated: every response whose header block carries status OK is a
\* completed sequence of no items whatever its body contains: streaming
\* returns successfully, draining yields no message, no body frame is read
\* and neither the decoding limit nor an encoding is applied.
C18_AnyEncoding ==
    (resp # None /\ HeaderStatus = Some("Ok")) => EmptySequence

\* C18, amended: a response whose header block carries status OK and whose
\* compression-encoding header is absent or names an accepted encoding is a
\* completed sequence of no items whatever its body contains: streaming
\* returns successfully, draining yields no message, no body frame is read
\* and neither the decoding limit nor the encoding is applied.
C18_TrailersOnlyOk ==
    (resp # None /\ HeaderStatus = Some("Ok") /\ EncodingAccepted) => EmptySequence

C18_Witness ==
    /\ resp # None
    /\ HeaderStatus = Some("Ok")
    /\ resp[1].encoding = Some("gzip")
    /\ "gzip" \in Accepted
    /\ config.max_decoding_message_size = Some(1)
    /\ shape = "streaming"
    /\ pc = "done"
    /\ EmptySequence

\* C19: every error Status that client_streaming returns after streaming
\* returned the response carries the captured header metadata: when the
\* first pull fails, for "Missing response message.", and for a failure
\* while the trailing metadata is read.
C19_ErrorsCarryHeaders ==
    (shape \in ClientShapes /\ pc = "done" /\ resp # None /\ ~DirectFailure
     /\ ~result.ok)
        => /\ result.status # None
           /\ Contains(result.status[1].metadata, resp[1].md)

\* C20: the classifier checks the compression encoding before it looks for
\* a status in the header block: a response with a non-OK header status and
\* an encoding outside the accepted set fails the call with the
\* unsupported-encoding error, not with the peer's status, and the peer's
\* header status is returned only when the encoding check passed.
C20_EncodingFirst ==
    /\ (resp # None /\ TrailersOnlyError /\ ~EncodingAccepted)
          => /\ pc = "done"
             /\ result = Err(UnsupportedEncoding)
             /\ result.status[1].code # HeaderStatus[1]
             /\ term = <<UnsupportedEncoding>>
    /\ (resp # None /\ TrailersOnlyError /\ result.status # None
        /\ result.status[1].code = HeaderStatus[1])
          => EncodingAccepted

C20_Witness ==
    /\ resp # None
    /\ HeaderStatus = Some("PermissionDenied")
    /\ resp[1].encoding = Some("X")
    /\ Accepted = {"gzip"}
    /\ pc = "done"
    /\ result = Err(UnsupportedEncoding)

====
